---- MODULE Spec2Model ----
(***************************************************************************)
(* The expiring key-value cache of package cache_manager: a map guarded by *)
(* one sync.RWMutex, the callers' Set / Get / Delete, and the background   *)
(* sweeper goroutine gC (expiredKeys under RLock, clearValues under Lock). *)
(* Every step between two lock operations or two clock reads of the code   *)
(* is one action, so all interleavings of callers, sweeper and clock are   *)
(* explored.  Time is the integer clock `now` (time.Now().UnixNano()).     *)
(***************************************************************************)
EXTENDS Integers, FiniteSets, TLC

\* ---------------------------------------------------------------- bounds
MaxTime == 3        \* the clock runs from 1 to MaxTime
MaxDuration == 1    \* largest ttl passed to Set
MaxDefault == 1     \* largest defaultExpiration passed to CacheCreate
MaxCleanup == 2     \* the positive cleanupTime passed to CacheCreate
MaxOps == 3         \* calls of Set / Get / Delete started in one run
MaxTimePrompt == 6  \* the clock's end when the sweeper is scheduled promptly
MaxOpsPrompt == 2   \* calls started in one run with a promptly scheduled sweeper
MaxOpsFair == 2     \* calls started in one run under fair scheduling

Keys == {"a", "b"}
Values == {"1", "2"}
Procs == {"p1", "p2"}               \* the calling goroutines
GC == "gc"                           \* the sweeper goroutine
Durations == -1 .. MaxDuration       \* time.Duration is signed
DefaultExpirations == -1 .. MaxDefault
CleanupTimes == {0, MaxCleanup}

VARIABLES
    defaultExpiration,  \* Cache.defaultExpiration
    cleanupTime,        \* Cache.cleanupTime
    data,               \* Cache.data: map[string]Value, or NilMap
    writer,             \* RWMutex: the goroutines holding it exclusively
    readers,            \* RWMutex: the goroutines holding it shared
    now,                \* the clock
    pc,                 \* per caller: where it stands in its call
    call,               \* per caller: the call and its arguments
    expiration,         \* per caller: Set's local `expiration`
    out,                \* what the step just taken returned to its caller, if it returned
    gcPc,               \* where the sweeper stands in gC
    wakeAt,             \* when the sweeper's time.After channel fires
    gcTodo,             \* expiredKeys: keys the range loop has yet to visit
    gcKeys,             \* expiredKeys / clearValues: the collected keys
    lastMod,            \* history: per key, the last Set or Delete completed on it
                        \*   (a Delete keeps the expiration of the entry it removed),
                        \*   and whether the sweeper has removed the key since
    hadExpiry,          \* history: keys ever stored with a finite expiration
    gcMixed,            \* history: a Set or Delete has completed between the two
                        \*   phases of the sweeper's current tick
    left                \* the number of calls the callers may still start

vars == <<defaultExpiration, cleanupTime, data, writer, readers, now, pc, call,
          expiration, out, gcPc, wakeAt, gcTodo, gcKeys, lastMod, hadExpiry, gcMixed,
          left>>

cfgVars == <<defaultExpiration, cleanupTime>>
lockVars == <<writer, readers>>
procVars == <<pc, call, expiration>>
gcVars == <<gcPc, wakeAt, gcTodo, gcKeys>>
histVars == <<lastMod, hadExpiry, gcMixed>>

\* ------------------------------------------------------------ the data
\* A nil map reference: no Go map value equals it (make() gives EmptyMap).
NilMap == [k \in {"<nil>"} |-> "<nil>"]
EmptyMap == [k \in {} |-> "<nil>"]

\* Value{Value, Expiration, CreateTime}
MkValue(v, e, t) == [Value |-> v, Expiration |-> e, CreateTime |-> t]

\* (mutant) the store replaces the map by one holding only the new entry
MapPutOnly(m, k, val) == [x \in {k} |-> val]

\* c.data[key] = val
MapPut(m, k, val) == [x \in (DOMAIN m) \cup {k} |-> IF x = k THEN val ELSE m[x]]

\* delete(c.data, k) for every k of ks (deleting an absent key is a no-op)
MapDeleteAll(m, ks) == [x \in (DOMAIN m) \ ks |-> m[x]]

\* (mutant) the sentinel test written >= 0: a non-expiring entry counts as expired
ExpiredSentinel(item, t) == item.Expiration >= 0 /\ t > item.Expiration

\* the test of Get and of expiredKeys: a finite expiration that has passed
Expired(item, t) == item.Expiration > 0 /\ t > item.Expiration

\* (mutant) Set without lines 43-45: a zero ttl is not replaced by the default
SetExpirationNoDefault(d, t) == IF d > 0 THEN t + d ELSE 0

\* Set's computation of `expiration` from its ttl argument at clock t
SetExpiration(d, t) ==
    LET duration == IF d = 0 THEN defaultExpiration ELSE d
    IN  IF duration > 0 THEN t + duration ELSE 0

\* (mutant) the sweeper is started for a zero cleanupTime too
StartsGCAlways(ct) == ct >= 0

\* CacheCreate: the sweeper is started only for a positive cleanupTime
StartsGC(ct) == ct > 0

NoCall == [op |-> "none", key |-> "", value |-> "", duration |-> 0]
NoOut == [op |-> "none", by |-> "", key |-> "", value |-> "", found |-> FALSE, err |-> "nil"]
NoMod == [op |-> "none", value |-> "", duration |-> 0, expiration |-> 0, swept |-> FALSE]
KeyNotFound == "error: Key not found"

\* ------------------------------------------------------------ the lock
\* (mutant) Lock() granted although readers still hold the lock
CanLockOverReaders == writer = {}

CanLock == writer = {} /\ readers = {}
CanRLock == writer = {}

\* ------------------------------------------------------------ CacheCreate
Init ==
    /\ defaultExpiration \in DefaultExpirations
    /\ cleanupTime \in CleanupTimes
    /\ data = EmptyMap
    /\ writer = {}
    /\ readers = {}
    /\ now = 1
    /\ pc = [p \in Procs |-> "idle"]
    /\ call = [p \in Procs |-> NoCall]
    /\ expiration = [p \in Procs |-> 0]
    /\ out = NoOut
    /\ gcPc = IF StartsGC(cleanupTime) THEN "loop" ELSE "off"
    /\ wakeAt = 0
    /\ gcTodo = {}
    /\ gcKeys = {}
    /\ lastMod = [k \in Keys |-> NoMod]
    /\ hadExpiry = {}
    /\ gcMixed = FALSE
    /\ left = MaxOps

\* ------------------------------------------------------------ the clock
Tick ==
    /\ now < MaxTime
    /\ now' = now + 1
    /\ out' = NoOut
    /\ UNCHANGED <<cfgVars, data, lockVars, procVars, gcVars, histVars, left>>

\* The clock when the sweeper goroutine is scheduled without delay: no time
\* passes between the timer firing and the end of that tick's work, so the
\* ticks are exactly cleanupTime apart.
TickPrompt ==
    /\ now < MaxTimePrompt
    /\ gcPc \in {"off", "done", "wait"}
    /\ gcPc = "wait" => now < wakeAt
    /\ now' = now + 1
    /\ out' = NoOut
    /\ UNCHANGED <<cfgVars, data, lockVars, procVars, gcVars, histVars, left>>

\* ------------------------------------------------------------ Set
\* lines 41-49: the expiration is computed before the lock is requested
SetBegin(p) ==
    /\ pc[p] = "idle"
    /\ left > 0
    /\ \E k \in Keys, v \in Values, d \in Durations :
          /\ call' = [call EXCEPT ![p] = [op |-> "Set", key |-> k, value |-> v, duration |-> d]]
          /\ expiration' = [expiration EXCEPT ![p] = SetExpiration(d, now)]
    /\ pc' = [pc EXCEPT ![p] = "set_lock"]
    /\ left' = left - 1
    /\ out' = NoOut
    /\ UNCHANGED <<cfgVars, data, lockVars, now, gcVars, histVars>>

\* line 51: c.Lock()
SetLock(p) ==
    /\ pc[p] = "set_lock"
    /\ CanLock
    /\ writer' = {p}
    /\ pc' = [pc EXCEPT ![p] = "set_cs"]
    /\ out' = NoOut
    /\ UNCHANGED <<cfgVars, data, readers, now, call, expiration, gcVars, histVars, left>>

\* (mutant) a Set that keeps the expiration of the entry it overwrites
SetWriteKeepsExpiry(p) ==
    /\ pc[p] = "set_cs"
    /\ LET k == call[p].key
           e == IF k \in DOMAIN data THEN data[k].Expiration ELSE expiration[p]
       IN  data' = MapPut(data, k, MkValue(call[p].value, e, now))
    /\ writer' = {}
    /\ pc' = [pc EXCEPT ![p] = "idle"]
    /\ out' = [NoOut EXCEPT !.op = "Set", !.by = p, !.key = call[p].key]
    /\ call' = [call EXCEPT ![p] = NoCall]
    /\ expiration' = [expiration EXCEPT ![p] = 0]
    /\ lastMod' = [lastMod EXCEPT ![call[p].key] =
                      [op |-> "Set", value |-> call[p].value,
                       duration |-> call[p].duration, expiration |-> expiration[p],
                       swept |-> FALSE]]
    /\ hadExpiry' = IF expiration[p] > 0 THEN hadExpiry \cup {call[p].key} ELSE hadExpiry
    /\ gcMixed' = (gcMixed \/ gcPc = "clear_lock")
    /\ UNCHANGED <<cfgVars, readers, now, gcVars, left>>

\* lines 54-60: the store, with CreateTime read from the clock again; Unlock
SetWrite(p) ==
    /\ pc[p] = "set_cs"
    /\ data' = MapPut(data, call[p].key, MkValue(call[p].value, expiration[p], now))
    /\ writer' = {}
    /\ pc' = [pc EXCEPT ![p] = "idle"]
    /\ out' = [NoOut EXCEPT !.op = "Set", !.by = p, !.key = call[p].key]
    /\ call' = [call EXCEPT ![p] = NoCall]
    /\ expiration' = [expiration EXCEPT ![p] = 0]
    /\ lastMod' = [lastMod EXCEPT ![call[p].key] =
                      [op |-> "Set", value |-> call[p].value,
                       duration |-> call[p].duration, expiration |-> expiration[p],
                       swept |-> FALSE]]
    /\ hadExpiry' = IF expiration[p] > 0 THEN hadExpiry \cup {call[p].key} ELSE hadExpiry
    /\ gcMixed' = (gcMixed \/ gcPc = "clear_lock")
    /\ UNCHANGED <<cfgVars, readers, now, gcVars, left>>

\* ------------------------------------------------------------ Get
GetBegin(p) ==
    /\ pc[p] = "idle"
    /\ left > 0
    /\ \E k \in Keys :
          call' = [call EXCEPT ![p] = [NoCall EXCEPT !.op = "Get", !.key = k]]
    /\ pc' = [pc EXCEPT ![p] = "get_lock"]
    /\ left' = left - 1
    /\ out' = NoOut
    /\ UNCHANGED <<cfgVars, data, lockVars, now, expiration, gcVars, histVars>>

\* line 64: c.RLock()
GetLock(p) ==
    /\ pc[p] = "get_lock"
    /\ CanRLock
    /\ readers' = readers \cup {p}
    /\ pc' = [pc EXCEPT ![p] = "get_cs"]
    /\ out' = NoOut
    /\ UNCHANGED <<cfgVars, data, writer, now, call, expiration, gcVars, histVars, left>>

\* (mutant) Get without the lazy expiry test of lines 73-76
GetResultNoExpiry(m, k, t) ==
    IF k \notin DOMAIN m THEN [value |-> "", found |-> FALSE]
    ELSE [value |-> m[k].Value, found |-> TRUE]

\* lines 67-78: what Get returns for key k of map m at clock t
GetResult(m, k, t) ==
    IF k \notin DOMAIN m THEN [value |-> "", found |-> FALSE]
    ELSE IF Expired(m[k], t) THEN [value |-> "", found |-> FALSE]
    ELSE [value |-> m[k].Value, found |-> TRUE]

\* (mutant) a Get that deletes the entry it finds expired
GetReadEvict(p) ==
    /\ pc[p] = "get_cs"
    /\ LET r == GetResult(data, call[p].key, now)
       IN  /\ out' = [op |-> "Get", by |-> p, key |-> call[p].key,
                      value |-> r.value, found |-> r.found, err |-> "nil"]
           /\ data' = IF r.found THEN data ELSE MapDeleteAll(data, {call[p].key})
    /\ readers' = readers \ {p}
    /\ pc' = [pc EXCEPT ![p] = "idle"]
    /\ call' = [call EXCEPT ![p] = NoCall]
    /\ UNCHANGED <<cfgVars, writer, now, expiration, gcVars, histVars, left>>

\* lines 67-79: the lookup, the expiry test, RUnlock
GetRead(p) ==
    /\ pc[p] = "get_cs"
    /\ LET r == GetResult(data, call[p].key, now)
       IN  out' = [op |-> "Get", by |-> p, key |-> call[p].key,
                   value |-> r.value, found |-> r.found, err |-> "nil"]
    /\ readers' = readers \ {p}
    /\ pc' = [pc EXCEPT ![p] = "idle"]
    /\ call' = [call EXCEPT ![p] = NoCall]
    /\ UNCHANGED <<cfgVars, data, writer, now, expiration, gcVars, histVars, left>>

\* ------------------------------------------------------------ Delete
DeleteBegin(p) ==
    /\ pc[p] = "idle"
    /\ left > 0
    /\ \E k \in Keys :
          call' = [call EXCEPT ![p] = [NoCall EXCEPT !.op = "Delete", !.key = k]]
    /\ pc' = [pc EXCEPT ![p] = "delete_lock"]
    /\ left' = left - 1
    /\ out' = NoOut
    /\ UNCHANGED <<cfgVars, data, lockVars, now, expiration, gcVars, histVars>>

\* line 83: c.Lock()
DeleteLock(p) ==
    /\ pc[p] = "delete_lock"
    /\ CanLock
    /\ writer' = {p}
    /\ pc' = [pc EXCEPT ![p] = "delete_cs"]
    /\ out' = NoOut
    /\ UNCHANGED <<cfgVars, data, readers, now, call, expiration, gcVars, histVars, left>>

\* history: the expiration of the entry a Delete(k) removes from m
Removed(m, k) == IF k \in DOMAIN m THEN m[k].Expiration ELSE 0

\* (mutant) Delete without the presence test of lines 86-88
DeleteResultSilent(m, k) == [data |-> MapDeleteAll(m, {k}), err |-> "nil"]

\* (mutant) Delete deciding as Get does: an expired entry counts as absent
DeleteResultLikeGet(m, k) ==
    IF k \notin DOMAIN m \/ Expired(m[k], now) THEN [data |-> m, err |-> KeyNotFound]
    ELSE [data |-> MapDeleteAll(m, {k}), err |-> "nil"]

\* lines 86-92: the map after Delete(k) and the error it returns
DeleteResult(m, k) ==
    IF k \notin DOMAIN m THEN [data |-> m, err |-> KeyNotFound]
    ELSE [data |-> MapDeleteAll(m, {k}), err |-> "nil"]

\* (mutant) Delete with the Unlock missing on the early return of line 87
DeleteBodyNoUnlockOnError(p) ==
    /\ pc[p] = "delete_cs"
    /\ LET r == DeleteResult(data, call[p].key)
       IN  /\ data' = r.data
           /\ out' = [NoOut EXCEPT !.op = "Delete", !.by = p, !.key = call[p].key,
                                    !.err = r.err]
           /\ lastMod' = IF r.err = "nil"
                         THEN [lastMod EXCEPT ![call[p].key] =
                                  [NoMod EXCEPT !.op = "Delete",
                                                !.expiration = Removed(data, call[p].key)]]
                         ELSE lastMod
           /\ writer' = IF r.err = "nil" THEN {} ELSE writer
    /\ gcMixed' = (gcMixed \/ gcPc = "clear_lock")
    /\ pc' = [pc EXCEPT ![p] = "idle"]
    /\ call' = [call EXCEPT ![p] = NoCall]
    /\ UNCHANGED <<cfgVars, readers, now, expiration, gcVars, hadExpiry, left>>

\* lines 86-93: the presence test, the delete, Unlock
DeleteBody(p) ==
    /\ pc[p] = "delete_cs"
    /\ LET r == DeleteResult(data, call[p].key)
       IN  /\ data' = r.data
           /\ out' = [NoOut EXCEPT !.op = "Delete", !.by = p, !.key = call[p].key,
                                    !.err = r.err]
           /\ lastMod' = IF r.err = "nil"
                         THEN [lastMod EXCEPT ![call[p].key] =
                                  [NoMod EXCEPT !.op = "Delete",
                                                !.expiration = Removed(data, call[p].key)]]
                         ELSE lastMod
    /\ gcMixed' = (gcMixed \/ gcPc = "clear_lock")
    /\ writer' = {}
    /\ pc' = [pc EXCEPT ![p] = "idle"]
    /\ call' = [call EXCEPT ![p] = NoCall]
    /\ UNCHANGED <<cfgVars, readers, now, expiration, gcVars, hadExpiry, left>>

\* ------------------------------------------------------------ the sweeper
\* line 102: time.After(c.cleanupTime) arms the timer
GcSleep ==
    /\ gcPc = "loop"
    /\ wakeAt' = now + cleanupTime
    /\ gcPc' = "wait"
    /\ out' = NoOut
    /\ UNCHANGED <<cfgVars, data, lockVars, now, procVars, gcTodo, gcKeys, histVars, left>>

\* (mutant) the test of line 104 written len(c.data) == 0: an empty map ends
\* the sweeper
GcWakeEmptyIsNil ==
    /\ gcPc = "wait"
    /\ now >= wakeAt
    /\ gcPc' = IF data = NilMap \/ DOMAIN data = {} THEN "done" ELSE "scan_lock"
    /\ wakeAt' = 0
    /\ out' = NoOut
    /\ UNCHANGED <<cfgVars, data, lockVars, now, procVars, gcTodo, gcKeys, histVars, left>>

\* lines 102-106: the timer has fired; the nil test of c.data
GcWake ==
    /\ gcPc = "wait"
    /\ now >= wakeAt
    /\ gcPc' = IF data = NilMap THEN "done" ELSE "scan_lock"
    /\ wakeAt' = 0
    /\ out' = NoOut
    /\ UNCHANGED <<cfgVars, data, lockVars, now, procVars, gcTodo, gcKeys, histVars, left>>

\* line 116: c.RLock(); the range loop starts over the keys of the map
GcScanLock ==
    /\ gcPc = "scan_lock"
    /\ CanRLock
    /\ readers' = readers \cup {GC}
    /\ gcTodo' = DOMAIN data
    /\ gcKeys' = {}
    /\ gcPc' = "scan"
    /\ out' = NoOut
    /\ UNCHANGED <<cfgVars, data, writer, now, procVars, wakeAt, histVars, left>>

\* (mutant) the scan without the clock test of line 121: every entry with a
\* finite expiration is collected
GcScanStepAnyFinite ==
    /\ gcPc = "scan"
    /\ \E k \in gcTodo :
          /\ gcKeys' = IF data[k].Expiration > 0 THEN gcKeys \cup {k} ELSE gcKeys
          /\ gcTodo' = gcTodo \ {k}
    /\ out' = NoOut
    /\ UNCHANGED <<cfgVars, data, lockVars, now, procVars, gcPc, wakeAt, histVars, left>>

\* lines 119-124: one iteration of the range loop (Go fixes no order), each
\* reading the clock anew
GcScanStep ==
    /\ gcPc = "scan"
    /\ \E k \in gcTodo :
          /\ gcKeys' = IF Expired(data[k], now) THEN gcKeys \cup {k} ELSE gcKeys
          /\ gcTodo' = gcTodo \ {k}
    /\ out' = NoOut
    /\ UNCHANGED <<cfgVars, data, lockVars, now, procVars, gcPc, wakeAt, histVars, left>>

\* (mutant) the test of line 108 inverted: clearValues is never given a key
GcScanDoneInverted ==
    /\ gcPc = "scan"
    /\ gcTodo = {}
    /\ readers' = readers \ {GC}
    /\ gcPc' = IF gcKeys = {} THEN "clear_lock" ELSE "loop"
    /\ gcKeys' = {}
    /\ out' = NoOut
    /\ UNCHANGED <<cfgVars, data, writer, now, procVars, wakeAt, gcTodo, histVars, left>>

\* lines 126, 108: RUnlock; clearValues is called only for a non-empty slice
GcScanDone ==
    /\ gcPc = "scan"
    /\ gcTodo = {}
    /\ readers' = readers \ {GC}
    /\ gcPc' = IF gcKeys # {} THEN "clear_lock" ELSE "loop"
    /\ out' = NoOut
    /\ UNCHANGED <<cfgVars, data, writer, now, procVars, wakeAt, gcTodo, gcKeys, histVars, left>>

\* line 131: c.Lock()
GcClearLock ==
    /\ gcPc = "clear_lock"
    /\ CanLock
    /\ writer' = {GC}
    /\ gcPc' = "clear"
    /\ out' = NoOut
    /\ UNCHANGED <<cfgVars, data, readers, now, procVars, wakeAt, gcTodo, gcKeys, histVars, left>>

\* (mutant) clearValues looking at each entry again under the exclusive lock
GcClearRecheck ==
    /\ gcPc = "clear"
    /\ LET ks == {k \in gcKeys \cap DOMAIN data : Expired(data[k], now)}
       IN  /\ data' = MapDeleteAll(data, ks)
           /\ lastMod' = [k \in Keys |->
                             IF k \in ks
                             THEN [lastMod[k] EXCEPT !.swept = TRUE] ELSE lastMod[k]]
    /\ gcMixed' = FALSE
    /\ writer' = {}
    /\ gcKeys' = {}
    /\ gcPc' = "loop"
    /\ out' = NoOut
    /\ UNCHANGED <<cfgVars, readers, now, procVars, wakeAt, gcTodo, hadExpiry, left>>

\* lines 134-137: every collected key is deleted, with no second look; Unlock
GcClear ==
    /\ gcPc = "clear"
    /\ data' = MapDeleteAll(data, gcKeys)
    /\ lastMod' = [k \in Keys |->
                      IF k \in gcKeys /\ k \in DOMAIN data
                      THEN [lastMod[k] EXCEPT !.swept = TRUE] ELSE lastMod[k]]
    /\ gcMixed' = FALSE
    /\ writer' = {}
    /\ gcKeys' = {}
    /\ gcPc' = "loop"
    /\ out' = NoOut
    /\ UNCHANGED <<cfgVars, readers, now, procVars, wakeAt, gcTodo, hadExpiry, left>>

\* ------------------------------------------------------------ the system
Caller(p) ==
    \/ SetBegin(p) \/ SetLock(p) \/ SetWrite(p)
    \/ GetBegin(p) \/ GetLock(p) \/ GetRead(p)
    \/ DeleteBegin(p) \/ DeleteLock(p) \/ DeleteBody(p)

Sweeper ==
    \/ GcSleep \/ GcWake \/ GcScanLock \/ GcScanStep \/ GcScanDone
    \/ GcClearLock \/ GcClear

Next == Tick \/ Sweeper \/ \E p \in Procs : Caller(p)

Spec == Init /\ [][Next]_vars

\* The cache with a running sweeper that is scheduled promptly: the setting of
\* the timing claims about eviction.
InitPrompt ==
    /\ defaultExpiration \in DefaultExpirations
    /\ cleanupTime \in {ct \in CleanupTimes : StartsGC(ct)}
    /\ data = EmptyMap
    /\ writer = {}
    /\ readers = {}
    /\ now = 1
    /\ pc = [p \in Procs |-> "idle"]
    /\ call = [p \in Procs |-> NoCall]
    /\ expiration = [p \in Procs |-> 0]
    /\ out = NoOut
    /\ gcPc = "loop"
    /\ wakeAt = 0
    /\ gcTodo = {}
    /\ gcKeys = {}
    /\ lastMod = [k \in Keys |-> NoMod]
    /\ hadExpiry = {}
    /\ gcMixed = FALSE
    /\ left = MaxOpsPrompt

NextPrompt == TickPrompt \/ Sweeper \/ \E p \in Procs : Caller(p)

PromptSpec == InitPrompt /\ [][NextPrompt]_vars

\* The cache under fair scheduling.  The Go scheduler runs every runnable
\* goroutine, and sync.RWMutex grants a pending Lock() or RLock() once the
\* lock stays free for it: a step of a started call or of a started sweeper
\* phase that stays enabled is taken (WF).  Callers are not obliged to start
\* calls, the timer is not obliged to fire, the clock not to advance.
InitFair ==
    /\ defaultExpiration \in DefaultExpirations
    /\ cleanupTime \in CleanupTimes
    /\ data = EmptyMap
    /\ writer = {}
    /\ readers = {}
    /\ now = 1
    /\ pc = [p \in Procs |-> "idle"]
    /\ call = [p \in Procs |-> NoCall]
    /\ expiration = [p \in Procs |-> 0]
    /\ out = NoOut
    /\ gcPc = IF StartsGC(cleanupTime) THEN "loop" ELSE "off"
    /\ wakeAt = 0
    /\ gcTodo = {}
    /\ gcKeys = {}
    /\ lastMod = [k \in Keys |-> NoMod]
    /\ hadExpiry = {}
    /\ gcMixed = FALSE
    /\ left = MaxOpsFair

Fairness ==
    /\ \A p \in Procs :
          /\ WF_vars(SetLock(p)) /\ WF_vars(SetWrite(p))
          /\ WF_vars(GetLock(p)) /\ WF_vars(GetRead(p))
          /\ WF_vars(DeleteLock(p)) /\ WF_vars(DeleteBody(p))
    /\ WF_vars(GcScanLock) /\ WF_vars(GcScanStep) /\ WF_vars(GcScanDone)
    /\ WF_vars(GcClearLock) /\ WF_vars(GcClear)

FairSpec == InitFair /\ [][Next]_vars /\ Fairness

\* ------------------------------------------------------------ claims
\* C1 (round trip): a Get(k) that follows a completed Set(k, v, 0) whose
\* effective TTL is non-expiring, with nothing done to k in between (no other
\* Set, no Delete, no removal by the sweeper), returns (v, true).
C1_RoundTrip ==
    (/\ out.op = "Get"
     /\ defaultExpiration <= 0
     /\ lastMod[out.key].op = "Set"
     /\ lastMod[out.key].duration = 0
     /\ ~lastMod[out.key].swept)
    => (out.found /\ out.value = lastMod[out.key].value)

C1_Witness ==
    /\ out.op = "Get"
    /\ defaultExpiration <= 0
    /\ lastMod[out.key].op = "Set"
    /\ lastMod[out.key].duration = 0
    /\ ~lastMod[out.key].swept
    /\ out.found
    /\ out.value = "2"
    /\ now > 1

\* C2 as stated: whenever Get(k) returns (v, true), the entry stored for k at
\* the check has no expiration or an expiresAt strictly in the future of the
\* clock value the check used.
C2_Original ==
    (out.op = "Get" /\ out.found)
    => /\ out.key \in DOMAIN data
       /\ (data[out.key].Expiration <= 0 \/ data[out.key].Expiration > now)

\* C2 as amended: whenever Get(k) returns (v, true), the entry stored for k at
\* the check has no expiration or an expiresAt that is not in the past of the
\* clock value the check used (now <= expiresAt: at now = expiresAt the entry
\* is still returned); an entry with now > expiresAt is never returned as live.
C2_LiveOnRead ==
    (out.op = "Get" /\ out.found)
    => /\ out.key \in DOMAIN data
       /\ (data[out.key].Expiration <= 0 \/ data[out.key].Expiration >= now)

C2_Witness ==
    /\ out.op = "Get"
    /\ out.found
    /\ data[out.key].Expiration = now
    /\ \E k \in DOMAIN data : Expired(data[k], now)

\* C3 (expiration on read): after Set(k, v, ttl) with ttl > 0 and no later Set
\* or Delete on k, Get(k) returns (v, true) at any time before the entry's
\* expiresAt and not-found at any time after it; Get returns not-found for a
\* key absent from the map and (payload, true) in every remaining case.
C3_ExpirationOnRead ==
    out.op = "Get" =>
        LET k == out.key
            m == lastMod[k]
        IN  /\ (m.op = "Set" /\ m.duration > 0 /\ now < m.expiration)
                    => (out.found /\ out.value = m.value)
            /\ (m.op = "Set" /\ m.duration > 0 /\ now > m.expiration)
                    => ~out.found
            /\ k \notin DOMAIN data => ~out.found
            /\ (k \in DOMAIN data /\ ~(data[k].Expiration > 0 /\ now > data[k].Expiration))
                    => (out.found /\ out.value = data[k].Value)

\* C4 (Get's frame): no step of a Get (the call, the RLock, the lookup with
\* RUnlock) changes the stored mapping, whether the key is live, expired or
\* absent.
C4_GetFrame ==
    [][\A p \in Procs :
          (pc'[p] # pc[p] /\ (pc[p] \in {"get_lock", "get_cs"} \/ pc'[p] = "get_lock"))
              => data' = data]_vars

C4_Witness ==
    /\ out.op = "Get"
    /\ ~out.found
    /\ out.key \in DOMAIN data
    /\ Expired(data[out.key], now)

\* C5 (default TTL): Set(k, v, 0) computes the expiration from the cache's
\* defaultExpiration (clock + default when that is positive), Set(k, v, ttl)
\* with ttl > 0 computes clock + ttl whatever the default, the entry is stored
\* with that expiration, and Get is not-found once the clock has passed it.
C5_DefaultTTL ==
    [][\A p \in Procs :
          /\ (pc[p] = "idle" /\ pc'[p] = "set_lock")
                => LET d == call'[p].duration
                   IN  /\ d > 0 => expiration'[p] = now + d
                       /\ (d = 0 /\ defaultExpiration > 0)
                             => expiration'[p] = now + defaultExpiration
                       /\ (d = 0 /\ defaultExpiration <= 0) => expiration'[p] = 0
          /\ (pc[p] = "set_cs" /\ pc'[p] = "idle")
                => /\ call[p].key \in DOMAIN data'
                   /\ data'[call[p].key].Expiration = expiration[p]
          /\ (pc[p] = "get_cs" /\ pc'[p] = "idle" /\ call[p].key \in DOMAIN data
                /\ data[call[p].key].Expiration > 0
                /\ now > data[call[p].key].Expiration)
                => ~out'.found]_vars

C5_Witness ==
    /\ defaultExpiration > 0
    /\ out.op = "Get"
    /\ ~out.found
    /\ lastMod[out.key].op = "Set"
    /\ lastMod[out.key].duration = 0
    /\ out.key \in DOMAIN data
    /\ data[out.key].Expiration = data[out.key].CreateTime + defaultExpiration
    /\ now > data[out.key].Expiration

\* C6 (never-expiring entries): with defaultExpiration = 0, once Set(k, v, 0)
\* has completed, every later Get(k) returns (v, true), whatever the clock and
\* the sweeper do, as long as no Delete(k) and no further Set(k) completes.
C6_NeverExpiring ==
    (/\ defaultExpiration = 0
     /\ out.op = "Get"
     /\ lastMod[out.key].op = "Set"
     /\ lastMod[out.key].duration = 0)
    => (out.found /\ out.value = lastMod[out.key].value)

\* C7 (Delete): Delete(k) of an absent key returns KeyNotFound and leaves the
\* map as it was; Delete(k) of a stored key returns nil, removes k and nothing
\* else, and a Get(k) with no Set(k) in between is not-found.  No call returns
\* any other error, and Set and Get return none.
C7_DeleteSemantics ==
    [][/\ \A p \in Procs :
            (pc[p] = "delete_cs" /\ pc'[p] = "idle")
              => LET k == call[p].key
                 IN  IF k \notin DOMAIN data
                     THEN out'.err = KeyNotFound /\ data' = data
                     ELSE /\ out'.err = "nil"
                          /\ DOMAIN data' = (DOMAIN data) \ {k}
                          /\ \A j \in DOMAIN data' : data'[j] = data[j]
       /\ (out'.op = "Get" /\ lastMod'[out'.key].op = "Delete") => ~out'.found
       /\ out'.err # "nil" => (out'.op = "Delete" /\ out'.err = KeyNotFound)
       /\ out'.op \in {"Set", "Get"} => out'.err = "nil"]_vars

C7_Witness ==
    /\ out.op = "Get"
    /\ lastMod[out.key].op = "Delete"
    /\ ~out.found
    /\ DOMAIN data = {}

\* C9 (no lost updates): a key that has only ever been Set with non-expiring
\* entries, and not deleted since, is stored with exactly the value of the
\* last Set on it, whatever Sets on other keys, Gets and sweeper runs interleave.
C9_NoLostUpdates ==
    \A k \in Keys :
        (lastMod[k].op = "Set" /\ k \notin hadExpiry)
            => (k \in DOMAIN data /\ data[k].Value = lastMod[k].value
                /\ data[k].Expiration = 0)

C9_Witness ==
    /\ cleanupTime > 0
    /\ hadExpiry = {}
    /\ \A k \in Keys : lastMod[k].op = "Set"
    /\ data["a"].Value # data["b"].Value
    /\ out.op = "Get"
    /\ out.found

\* C10 (sweeping disabled): with cleanupTime = 0 the sweeper never runs, a key
\* leaves the map only in a Delete that returns nil, an entry changes only in
\* a Set on its key, and an expired entry, while stored, is not-found for Get.
C10_SweepingDisabled ==
    [][cleanupTime = 0 =>
          /\ gcPc' = "off"
          /\ \A k \in DOMAIN data :
                /\ k \notin DOMAIN data'
                      => (out'.op = "Delete" /\ out'.key = k /\ out'.err = "nil")
                /\ (k \in DOMAIN data' /\ data'[k] # data[k])
                      => (out'.op = "Set" /\ out'.key = k)
          /\ (out'.op = "Get" /\ out'.key \in DOMAIN data'
                /\ Expired(data'[out'.key], now'))
                => ~out'.found]_vars

C10_Witness ==
    /\ cleanupTime = 0
    /\ out.op = "Get"
    /\ ~out.found
    /\ out.key \in DOMAIN data
    /\ Expired(data[out.key], now)
    /\ now = data[out.key].Expiration + 1
    /\ now = MaxTime

\* the effective TTL of the last Set on k (lines 43-45)
LastTTL(k) == IF lastMod[k].duration = 0 THEN defaultExpiration ELSE lastMod[k].duration

Later(a, b) == IF a >= b THEN a ELSE b

C11_LockDiscipline ==
    [][/\ \A p \in Procs :
             /\ (p \in writer') <=> (pc'[p] \in {"set_cs", "delete_cs"})
             /\ (p \in readers') <=> (pc'[p] = "get_cs")
       /\ (GC \in writer') <=> (gcPc' = "clear")
       /\ (GC \in readers') <=> (gcPc' = "scan")
       /\ writer' # {} => (Cardinality(writer') = 1 /\ readers' = {})
       /\ data' # data => (Cardinality(writer) = 1 /\ readers = {} /\ writer' = {})
       /\ out'.op = "Get" => out'.by \in readers
       /\ (gcTodo' # gcTodo /\ gcPc = "scan") => GC \in readers]_vars

\* Get in two callers and the sweeper's scan hold the lock together
C11_Witness ==
    /\ readers = Procs \cup {GC}
    /\ writer = {}
    /\ gcTodo # {}

\* C12 (no deadlock, no indefinite blocking): a caller that has returned holds
\* no lock, the sweeper holds none outside its two phases (none while it asks
\* for the exclusive lock), and under fair scheduling every started Set, Get
\* and Delete returns, every started scan phase ends and every started delete
\* phase ends.
C12_NoIndefiniteBlocking ==
    /\ [](\A p \in Procs : pc[p] = "idle" => p \notin (writer \cup readers))
    /\ [](gcPc \notin {"scan", "clear"} => GC \notin (writer \cup readers))
    /\ \A p \in Procs : (pc[p] # "idle") ~> (pc[p] = "idle")
    /\ (gcPc = "scan_lock") ~> (gcPc \in {"clear_lock", "loop"})
    /\ (gcPc = "clear_lock") ~> (gcPc = "loop")

\* the sweeper's delete phase waits for the lock a Get holds
C12_Witness ==
    /\ gcPc = "clear_lock"
    /\ \E p \in Procs : pc[p] = "get_cs" /\ readers = {p}
    /\ left = 0

\* C13 (non-expiring entries are exempt from sweeping): no delete phase of the
\* sweeper removes a stored entry that has no expiration (Expiration <= 0),
\* whatever Sets and Deletes interleave with the sweeper.
C13_NonExpiringExempt ==
    [][(gcPc = "clear" /\ gcPc' = "loop")
          => \A k \in DOMAIN data : data[k].Expiration <= 0 => k \in DOMAIN data']_vars

\* C14 (scan-then-delete race): the delete phase removes every key the scan
\* collected and nothing else, without looking at the entries again, so an
\* entry a Set stored under a collected key between the two phases is removed
\* although it has not expired; a Get of a key the sweeper removed after the
\* last Set on it is not-found.
C14_ScanThenDeleteRace ==
    [][/\ (gcPc = "clear" /\ gcPc' = "loop")
            => /\ DOMAIN data' = (DOMAIN data) \ gcKeys
               /\ \A k \in DOMAIN data' : data'[k] = data[k]
       /\ (out'.op = "Get" /\ lastMod'[out'.key].op = "Set" /\ lastMod'[out'.key].swept)
            => ~out'.found]_vars

\* Get(k) is not-found although the last Set on k stored an entry with a
\* finite expiration that has not passed: the sweeper removed that entry
C14_Witness ==
    /\ out.op = "Get"
    /\ ~out.found
    /\ lastMod[out.key].op = "Set"
    /\ lastMod[out.key].swept
    /\ lastMod[out.key].expiration > 0
    /\ now <= lastMod[out.key].expiration

\* C15 (a sweeper tick on its own): each iteration of the scan collects the key
\* it visits exactly when that entry has a finite expiration the clock has
\* passed, and changes no entry; a scan that collected nothing goes back to
\* sleep without asking for the exclusive lock, which the sweeper only ever
\* holds with keys to delete; and a delete phase with no Set or Delete
\* completed since its scan removes exactly the collected keys, each of them
\* stored with a finite expiration that has passed, leaving every other entry
\* stored and unchanged.
C15_SweeperTick ==
    [][/\ (gcPc = "scan" /\ gcTodo' # gcTodo)
            => /\ \A k \in gcTodo \ gcTodo' : (k \in gcKeys') <=> Expired(data[k], now)
               /\ gcKeys \subseteq gcKeys'
               /\ gcKeys' \ gcKeys \subseteq gcTodo \ gcTodo'
               /\ data' = data
       /\ (gcPc = "scan" /\ gcPc' # "scan")
            => /\ data' = data
               /\ gcPc' = IF gcKeys = {} THEN "loop" ELSE "clear_lock"
       /\ GC \in writer' => gcKeys' # {}
       /\ (gcPc = "clear" /\ gcPc' = "loop" /\ ~gcMixed)
            => /\ \A k \in gcKeys : k \in DOMAIN data /\ Expired(data[k], now)
               /\ \A k \in DOMAIN data : data[k].Expiration <= 0 => k \notin gcKeys
               /\ DOMAIN data' = (DOMAIN data) \ gcKeys
               /\ \A k \in DOMAIN data' : data'[k] = data[k]]_vars

\* Only two calls were ever started, the Sets of "a" and "b"; "b" was stored
\* before the sweeper's first scan could start, so no call ran between the
\* phases of the tick that removed the expired "a" and left "b".
C15_Witness ==
    /\ gcPc = "loop"
    /\ left = MaxOps - 2
    /\ lastMod["a"].op = "Set"
    /\ lastMod["a"].swept
    /\ "a" \notin DOMAIN data
    /\ "b" \in DOMAIN data
    /\ data["b"].Expiration = 0
    /\ data["b"].CreateTime < 1 + cleanupTime

\* C16 (Set's frame): the step that completes Set(k, v, ttl) leaves the map with
\* the keys it had plus k, with k's entry carrying v and the expiration this Set
\* computed, and with every other entry unchanged; it returns no error for any
\* input; whatever entry k had before, a Get(k) is (v, true) at every clock
\* value not past the new expiration, as long as nothing removes the entry.
C16_SetFrame ==
    [][/\ \A p \in Procs :
            (pc[p] = "set_cs" /\ pc'[p] = "idle")
              => LET k == call[p].key
                 IN  /\ DOMAIN data' = (DOMAIN data) \cup {k}
                     /\ data'[k].Value = call[p].value
                     /\ data'[k].Expiration = expiration[p]
                     /\ \A j \in (DOMAIN data) \ {k} : data'[j] = data[j]
                     /\ out'.op = "Set" /\ out'.key = k /\ out'.err = "nil"
                     /\ \A t \in 1 .. MaxTime :
                           (expiration[p] = 0 \/ t <= expiration[p])
                              => GetResult(data', k, t) =
                                    [value |-> call[p].value, found |-> TRUE]
       /\ (/\ out'.op = "Get"
           /\ lastMod'[out'.key].op = "Set"
           /\ ~lastMod'[out'.key].swept
           /\ (lastMod'[out'.key].expiration = 0 \/ now' <= lastMod'[out'.key].expiration))
            => (out'.found /\ out'.value = lastMod'[out'.key].value)]_vars

\* Without a sweeper and with three calls, none of them a Delete: a key that
\* was stored with a finite expiration has been Set again without one, and a
\* Get finds the new value.
C16_Witness ==
    /\ cleanupTime = 0
    /\ left = MaxOps - 3
    /\ \A k \in Keys : lastMod[k].op # "Delete"
    /\ out.op = "Get"
    /\ out.found
    /\ out.key \in hadExpiry
    /\ data[out.key].Expiration = 0
    /\ out.value = "2"
    /\ now > 2

\* C17 (an effective TTL that is not positive means non-expiring): Set(k, v,
\* ttl) with ttl < 0, or with ttl = 0 and defaultExpiration <= 0, computes and
\* stores Expiration 0, and every later Get(k), with no later Set or Delete on
\* k, returns (v, true).
C17_NonPositiveTTL ==
    [][/\ \A p \in Procs :
            /\ (pc[p] = "idle" /\ pc'[p] = "set_lock")
                 => LET d == call'[p].duration
                    IN  (d < 0 \/ (d = 0 /\ defaultExpiration <= 0))
                           => expiration'[p] = 0
            /\ (pc[p] = "set_cs" /\ pc'[p] = "idle")
                 => LET d == call[p].duration
                    IN  (d < 0 \/ (d = 0 /\ defaultExpiration <= 0))
                           => data'[call[p].key].Expiration = 0
       /\ (/\ out'.op = "Get"
           /\ lastMod'[out'.key].op = "Set"
           /\ LET d == lastMod'[out'.key].duration
              IN  d < 0 \/ (d = 0 /\ defaultExpiration <= 0))
            => (out'.found /\ out'.value = lastMod'[out'.key].value)]_vars

\* C18 (expiresAt is createdAt plus the effective TTL): every stored entry with
\* a finite expiration has Expiration = CreateTime + the effective TTL of the
\* Set that stored it.
C18_ExpiresAtFromCreatedAt ==
    \A k \in DOMAIN data :
        data[k].Expiration > 0 => data[k].Expiration = data[k].CreateTime + LastTTL(k)

\* C19 (the sweeper never terminates): the map reference is never nil (a map
\* with every key deleted is the empty map), a sweeper that was started is
\* never off and never done, and every firing of its timer passes the nil test
\* and goes on to the scan.
C19_SweeperNeverTerminates ==
    [][/\ data' # NilMap
       /\ DOMAIN data' = {} => data' = EmptyMap
       /\ StartsGC(cleanupTime) => (gcPc \notin {"off", "done"} /\ gcPc' \notin {"off", "done"})
       /\ (gcPc = "wait" /\ gcPc' # "wait") => gcPc' = "scan_lock"]_vars

\* the sweeper's timer has fired and the tick goes on to its scan although a
\* Delete has left the map empty
C19_Witness ==
    /\ gcPc = "scan_lock"
    /\ data = EmptyMap
    /\ \E k \in Keys : lastMod[k].op = "Delete"

\* C20 (Delete decides on storage presence): the step that completes Delete(k)
\* returns KeyNotFound exactly when k is not in the map; for a key whose entry
\* is stored and expired it returns nil and removes the entry, while the step
\* that completes Get(k) on such a key is not-found and leaves the entry
\* stored; once the sweeper has removed the entry, Delete(k) is KeyNotFound.
C20_DeleteOnPresence ==
    [][\A p \in Procs :
          LET k == call[p].key
          IN  /\ (pc[p] = "delete_cs" /\ pc'[p] = "idle")
                   => /\ (out'.err = KeyNotFound) <=> (k \notin DOMAIN data)
                      /\ (k \in DOMAIN data /\ Expired(data[k], now))
                            => (out'.err = "nil" /\ k \notin DOMAIN data')
                      /\ (lastMod[k].swept /\ k \notin DOMAIN data)
                            => out'.err = KeyNotFound
              /\ (pc[p] = "get_cs" /\ pc'[p] = "idle"
                    /\ k \in DOMAIN data /\ Expired(data[k], now))
                   => (~out'.found /\ k \in DOMAIN data' /\ data'[k] = data[k])]_vars

\* a Delete has just returned nil for a key whose stored entry had expired
C20_Witness ==
    /\ out.op = "Delete"
    /\ out.err = "nil"
    /\ lastMod[out.key].op = "Delete"
    /\ lastMod[out.key].expiration > 0
    /\ now > lastMod[out.key].expiration
    /\ out.key \notin DOMAIN data

====
